---- MODULE Spec2Model ----
(***************************************************************************)
(* RepetierServer print-host client (src/slic3r/Utils/RepetierServer.cpp). *)
(*                                                                         *)
(* One client object (host, apikey, cafile, printername) serves any number *)
(* of synchronous test() and upload() calls.  The HTTP transport invokes   *)
(* the closures the client registered (on_error, on_complete, on_progress) *)
(* from inside perform_sync(); each closure is one action, and the code    *)
(* that follows perform_sync() is the action that returns.                 *)
(***************************************************************************)
EXTENDS Integers, Sequences, FiniteSets, TLC

VARIABLES
    host, apikey, cafile, printername,  \* the four fields of the client
    pc,           \* where the running call stands
    op,           \* the public operation that is running: "none", "test", "upload"
    start_print,  \* upload_data.start_print of the running upload()
    msg,          \* test(): the wxString& msg (upload(): its local test_msg)
    msg_in,       \* what msg held when test() was entered
    test_res,     \* test(): the local res
    res,          \* upload(): the local res
    requests,     \* the requests performed in this call, in order
    errors,       \* the messages error_fn was called with in this call
    cancel_logs,  \* number of "Upload canceled" log entries of this call
    nprogress,    \* number of on_progress invocations of this call
    cancelled,    \* the cancel flag was left set by some on_progress invocation
    probe,        \* what the transport delivered for the GET
    post,         \* what the transport delivered for the POST
    escaped,      \* an exception left test() or upload()
    ret           \* the value the call returned

vars == <<host, apikey, cafile, printername, pc, op, start_print, msg, msg_in,
          test_res, res, requests, errors, cancel_logs, nprogress, cancelled,
          probe, post, escaped, ret>>

config == <<host, apikey, cafile, printername>>

-----------------------------------------------------------------------------
(* Bounds *)

\* on_progress invocations the transport makes during one transfer
MaxProgress == 2

-----------------------------------------------------------------------------
(* Strings *)

\* boost::starts_with(s, p); also s.find(p) == 0
StartsWith(s, p) == Len(s) >= Len(p) /\ SubSeq(s, 1, Len(p)) = p

\* s.back() == c, for a non-empty s
BackIs(s, c) == SubSeq(s, Len(s), Len(s)) = c

EndsWith(s, p) == Len(s) >= Len(p) /\ SubSeq(s, Len(s) - Len(p) + 1, Len(s)) = p

\* s contains p as a substring
Contains(s, p) == \E i \in 1..(Len(s) - Len(p) + 1) : SubSeq(s, i, i + Len(p) - 1) = p

-----------------------------------------------------------------------------
(* The configuration the client is constructed from *)

Hosts == {"example.com", "example.com/", "http://example.com", "http://example.com/",
          "https://example.com", "https://example.com/", "httpx.org", ""}
ApiKeys == {"", "KEY"}
CaFiles == {"", "ca.pem"}
PrinterNames == {"mk3"}

-----------------------------------------------------------------------------
(* make_url *)

make_url_no_sep(h, path) ==
    IF StartsWith(h, "http://") \/ StartsWith(h, "https://")
    THEN h \o path
    ELSE "http://" \o h \o "/" \o path

make_url(h, path) ==
    IF StartsWith(h, "http://") \/ StartsWith(h, "https://")
    THEN IF BackIs(h, "/")
         THEN h \o path
         ELSE h \o "/" \o path
    ELSE "http://" \o h \o "/" \o path

-----------------------------------------------------------------------------
(* Requests and set_auth *)

\* Http::get(url) / Http::post(url): a request with no header and no CA file
NewRequest(method, url) ==
    [method |-> method, url |-> url, headers |-> {}, ca_file |-> "", form |-> <<>>]

set_auth_skip_empty_key(http) ==
    [http EXCEPT !.headers = IF apikey = "" THEN @ ELSE @ \cup {<<"X-Api-Key", apikey>>},
                 !.ca_file = IF cafile # "" THEN cafile ELSE @]

set_auth(http) ==
    [http EXCEPT !.headers = @ \cup {<<"X-Api-Key", apikey>>},
                 !.ca_file = IF cafile # "" THEN cafile ELSE @]

-----------------------------------------------------------------------------
(* Response bodies and pt::read_json *)

\* A body is the sequence of its JSON tokens; anything that is not JSON
\* punctuation, a string or a number is a "junk" token.
Tok(t, v) == [t |-> t, v |-> v]
LBrace == Tok("{", "")
RBrace == Tok("}", "")
Colon == Tok(":", "")
Comma == Tok(",", "")
Str(v) == Tok("str", v)
Num(v) == Tok("num", v)

\* {"version":"1.0","name":"Repetier-Server 0.92.2"}
BodyRepetier ==
    <<LBrace, Str("version"), Colon, Str("1.0"), Comma,
      Str("name"), Colon, Str("Repetier-Server 0.92.2"), RBrace>>
\* {"version":"1.0","name":"OctoPrint"}
BodyOctoPrint ==
    <<LBrace, Str("version"), Colon, Str("1.0"), Comma,
      Str("name"), Colon, Str("OctoPrint"), RBrace>>
\* {"name":"Repetier","version":94}
BodyShortName ==
    <<LBrace, Str("name"), Colon, Str("Repetier"), Comma,
      Str("version"), Colon, Num("94"), RBrace>>
\* {"version":"1.0"}
BodyNoName == <<LBrace, Str("version"), Colon, Str("1.0"), RBrace>>
\* {"name":"Repetier-Server"}
BodyNoVersion == <<LBrace, Str("name"), Colon, Str("Repetier-Server"), RBrace>>
\* {}
BodyEmptyObject == <<LBrace, RBrace>>
\* <html>
BodyHtml == <<Tok("junk", "<html>")>>
\* {"version":"1.0"     (cut off)
BodyTruncated == <<LBrace, Str("version"), Colon, Str("1.0")>>
\* the empty body
BodyEmpty == <<>>

Bodies == {BodyRepetier, BodyOctoPrint, BodyShortName, BodyNoName, BodyNoVersion,
           BodyEmptyObject, BodyHtml, BodyTruncated, BodyEmpty}

ParseOk(tree) == [ok |-> TRUE, tree |-> tree]
ParseThrow == [ok |-> FALSE, tree |-> <<>>]

\* the members of an object, from token i on; tree is a ptree's list of
\* (key, data) children, in document order
RECURSIVE ParseMembers(_, _, _)
ParseMembers(toks, i, tree) ==
    IF /\ i + 3 <= Len(toks)
       /\ toks[i].t = "str"
       /\ toks[i + 1].t = ":"
       /\ toks[i + 2].t \in {"str", "num"}
    THEN LET tree2 == Append(tree, <<toks[i].v, toks[i + 2].v>>)
         IN  IF toks[i + 3].t = "}"
             THEN IF i + 3 = Len(toks) THEN ParseOk(tree2) ELSE ParseThrow
             ELSE IF toks[i + 3].t = ","
                  THEN ParseMembers(toks, i + 4, tree2)
                  ELSE ParseThrow
    ELSE ParseThrow

\* pt::read_json(ss, ptree): the tree, or a json_parser_error thrown
read_json(toks) ==
    IF Len(toks) < 2 \/ toks[1].t # "{"
    THEN ParseThrow
    ELSE IF toks[2].t = "}"
         THEN IF Len(toks) = 2 THEN ParseOk(<<>>) ELSE ParseThrow
         ELSE ParseMembers(toks, 2, <<>>)

None == [has |-> FALSE, val |-> ""]
Some(v) == [has |-> TRUE, val |-> v]

\* ptree.get_optional<std::string>(key): the data of the first child named key
get_optional(tree, key) ==
    LET hits == {i \in 1..Len(tree) : tree[i][1] = key}
    IN  IF hits = {}
        THEN None
        ELSE Some(tree[CHOOSE i \in hits : \A j \in hits : i <= j][2])

-----------------------------------------------------------------------------
(* validate_version_text, format_error *)

validate_version_text_exact(version_text) ==
    IF version_text.has THEN version_text.val = "Repetier-Server" ELSE TRUE

validate_version_text_required(version_text) ==
    IF version_text.has THEN StartsWith(version_text.val, "Repetier-Server") ELSE FALSE

validate_version_text(version_text) ==
    IF version_text.has THEN StartsWith(version_text.val, "Repetier-Server") ELSE TRUE

\* PrintHost::format_error(body, error, status)
format_error(body, error, status) ==
    error \o ", HTTP " \o ToString(status) \o ", body: " \o body

ParseFailMsg == "Could not parse server response"
MismatchMsg(text) ==
    "Mismatched type of print host: " \o (IF text.has THEN text.val ELSE "Repetier-Server")

\* what the transport reports with a failed request: (body, error, status)
TransportErrors ==
    {<<"", "Connection refused", 0>>, <<"Forbidden", "", 403>>}

-----------------------------------------------------------------------------
(* The closures of test() *)

\* on_error of test(): res = false; msg = format_error(body, error, status)
test_on_error(body, error, status) ==
    [res |-> FALSE, msg |-> format_error(body, error, status), threw |-> FALSE]

\* on_complete of test() without the try/catch around the parsing
test_on_complete_no_catch(body, m) ==
    LET parsed == read_json(body)
    IN  IF ~parsed.ok
        THEN [res |-> TRUE, msg |-> m, threw |-> TRUE]
        ELSE LET version == get_optional(parsed.tree, "version")
                 text == get_optional(parsed.tree, "name")
                 r == validate_version_text(text)
             IN  IF ~version.has
                 THEN [res |-> FALSE, msg |-> m, threw |-> FALSE]
                 ELSE [res |-> r, msg |-> IF r THEN m ELSE MismatchMsg(text),
                       threw |-> FALSE]

\* on_complete of test() reporting a missing "version" as a parse failure
test_on_complete_version_msg(body, m) ==
    LET parsed == read_json(body)
    IN  IF ~parsed.ok
        THEN [res |-> FALSE, msg |-> ParseFailMsg, threw |-> FALSE]
        ELSE LET version == get_optional(parsed.tree, "version")
                 text == get_optional(parsed.tree, "name")
                 r == validate_version_text(text)
             IN  IF ~version.has
                 THEN [res |-> FALSE, msg |-> ParseFailMsg, threw |-> FALSE]
                 ELSE [res |-> r, msg |-> IF r THEN m ELSE MismatchMsg(text),
                       threw |-> FALSE]

\* on_complete of test(): m is what msg holds when the closure runs
test_on_complete(body, m) ==
    LET parsed == read_json(body)
    IN  IF ~parsed.ok
        THEN \* catch (const std::exception&)
             [res |-> FALSE, msg |-> ParseFailMsg, threw |-> FALSE]
        ELSE LET version == get_optional(parsed.tree, "version")
                 text == get_optional(parsed.tree, "name")
                 r == validate_version_text(text)
             IN  IF ~version.has
                 THEN [res |-> FALSE, msg |-> m, threw |-> FALSE]
                 ELSE [res |-> r, msg |-> IF r THEN m ELSE MismatchMsg(text),
                       threw |-> FALSE]

-----------------------------------------------------------------------------
(* The closures of upload() *)

\* on_error of upload() that forgets to mark the failure
upload_on_error_keeps_res(r, errs, body, error, status) ==
    [res |-> r, errors |-> Append(errs, format_error(body, error, status))]

\* on_error of upload(): error_fn(format_error(...)); res = false
upload_on_error(r, errs, body, error, status) ==
    [res |-> FALSE, errors |-> Append(errs, format_error(body, error, status))]

\* on_progress of upload() that reports the cancellation to error_fn
upload_on_progress_reports(r, errs, logs, cancel) ==
    IF cancel
    THEN [res |-> FALSE, errors |-> Append(errs, "Upload canceled"), logs |-> logs + 1]
    ELSE [res |-> r, errors |-> errs, logs |-> logs]

\* on_progress of upload() that only logs the cancellation
upload_on_progress_keeps_res(r, errs, logs, cancel) ==
    IF cancel
    THEN [res |-> r, errors |-> errs, logs |-> logs + 1]
    ELSE [res |-> r, errors |-> errs, logs |-> logs]

\* on_progress of upload(): cancel is the flag as prorgess_fn left it
upload_on_progress(r, errs, logs, cancel) ==
    IF cancel
    THEN [res |-> FALSE, errors |-> errs, logs |-> logs + 1]
    ELSE [res |-> r, errors |-> errs, logs |-> logs]

-----------------------------------------------------------------------------
(* The transport: when Http::perform_sync() invokes which closure *)

NoOutcome == [kind |-> "none", body |-> <<>>, ebody |-> "", error |-> "", status |-> 0]
Completed(body, status) ==
    [kind |-> "complete", body |-> body, ebody |-> "", error |-> "", status |-> status]
Failed(body, error, status) ==
    [kind |-> "error", body |-> <<>>, ebody |-> body, error |-> error, status |-> status]
Aborted == [kind |-> "aborted", body |-> <<>>, ebody |-> "", error |-> "", status |-> 0]

\* the GET is in flight: its one terminal callback is due
GetInFlight == pc = "get"
\* the POST is in flight: its terminal callback is due
PostInFlight == pc = "post"
\* the transfer reaches a point where it reports progress
ProgressPoint == pc = "post" /\ nprogress < MaxProgress
\* the transfer was cancelled and ends with no terminal callback
AbortPoint == pc = "post" /\ cancelled

-----------------------------------------------------------------------------
(* State after construction *)

Init ==
    /\ host \in Hosts
    /\ apikey \in ApiKeys
    /\ cafile \in CaFiles
    /\ printername \in PrinterNames
    /\ pc = "idle"
    /\ op = "none"
    /\ start_print = FALSE
    /\ msg = ""
    /\ msg_in = ""
    /\ test_res = TRUE
    /\ res = TRUE
    /\ requests = <<>>
    /\ errors = <<>>
    /\ cancel_logs = 0
    /\ nprogress = 0
    /\ cancelled = FALSE
    /\ probe = NoOutcome
    /\ post = NoOutcome
    /\ escaped = FALSE
    /\ ret = "none"

\* the value a call returns, as ret holds it
Ret(b) == IF b THEN "true" ELSE "false"

\* what the caller's msg may hold when it calls test(msg)
Messages == {"", "stale"}

\* the job the caller hands to upload(): source_path, and upload_path split
\* into parent_path() and filename()
UploadData(sp) ==
    [source_path |-> "/tmp/a.gcode", upload_parent_path |-> "dir",
     upload_filename |-> "a.gcode", start_print |-> sp]

-----------------------------------------------------------------------------
(* test() *)

\* test(msg) up to perform_sync(): res = true, the GET is built,
\* authenticated and performed; m is what the caller's msg holds
TestBegin(m) ==
    /\ msg' = m
    /\ msg_in' = m
    /\ test_res' = TRUE
    /\ requests' = <<set_auth(NewRequest("GET", make_url(host, "printer/info")))>>
    /\ probe' = NoOutcome
    /\ pc' = "get"
    \* a new call: nothing of the previous one is left
    /\ res' = TRUE
    /\ errors' = <<>>
    /\ cancel_logs' = 0
    /\ nprogress' = 0
    /\ cancelled' = FALSE
    /\ post' = NoOutcome
    /\ escaped' = FALSE
    /\ ret' = "none"

\* the caller calls test(msg)
TestCall(m) ==
    /\ pc \in {"idle", "done"}
    /\ op' = "test"
    /\ start_print' = FALSE
    /\ TestBegin(m)
    /\ UNCHANGED config

\* the transport reports the GET failed
TestOnError(body, error, status) ==
    /\ GetInFlight
    /\ LET out == test_on_error(body, error, status)
       IN  /\ test_res' = out.res
           /\ msg' = out.msg
    /\ probe' = Failed(body, error, status)
    /\ pc' = "get_done"
    /\ UNCHANGED <<config, op, start_print, msg_in, res, requests, errors,
                   cancel_logs, nprogress, cancelled, post, escaped, ret>>

\* the transport reports the GET completed with this body
TestOnComplete(body) ==
    /\ GetInFlight
    /\ LET out == test_on_complete(body, msg)
       IN  /\ test_res' = out.res
           /\ msg' = out.msg
           /\ escaped' = out.threw
           /\ pc' = IF out.threw THEN "done" ELSE "get_done"
           /\ ret' = IF out.threw THEN "exception" ELSE ret
    /\ probe' = Completed(body, 200)
    /\ UNCHANGED <<config, op, start_print, msg_in, res, requests, errors,
                   cancel_logs, nprogress, cancelled, post>>

\* test() returns res to its caller
TestReturn ==
    /\ pc = "get_done"
    /\ op = "test"
    /\ ret' = Ret(test_res)
    /\ pc' = "done"
    /\ UNCHANGED <<config, op, start_print, msg, msg_in, test_res, res, requests,
                   errors, cancel_logs, nprogress, cancelled, probe, post, escaped>>

-----------------------------------------------------------------------------
(* upload() *)

\* the caller calls upload(upload_data, prorgess_fn, error_fn): test_msg is
\* a fresh wxString, and test(test_msg) runs up to its perform_sync()
UploadCall(sp) ==
    /\ pc \in {"idle", "done"}
    /\ op' = "upload"
    /\ start_print' = UploadData(sp).start_print
    /\ TestBegin("")
    /\ UNCHANGED config

\* the URL upload() posts to
upload_url(sp) ==
    make_url(host, "/printer/" \o (IF sp THEN "job" ELSE "model") \o "/" \o printername)

\* the POST upload() builds: Http::post(url), set_auth, the two form parts
upload_request(sp) ==
    [set_auth(NewRequest("POST", upload_url(sp))) EXCEPT
        !.form = <<[name |-> "a", value |-> "upload", file |-> ""],
                   [name |-> "filename", value |-> UploadData(sp).upload_filename,
                    file |-> UploadData(sp).source_path]>>]

\* upload() that reports a failed probe and goes on to the POST all the same
UploadAfterProbe_no_return ==
    /\ pc = "get_done"
    /\ op = "upload"
    /\ errors' = IF ~test_res THEN Append(errors, msg) ELSE errors
    /\ res' = TRUE
    /\ requests' = Append(requests, upload_request(start_print))
    /\ pc' = "post"
    /\ UNCHANGED <<config, op, start_print, msg, msg_in, test_res, cancel_logs,
                   nprogress, cancelled, probe, post, escaped, ret>>

\* upload() from the return of test(test_msg) to perform_sync() of the POST
UploadAfterProbe ==
    /\ pc = "get_done"
    /\ op = "upload"
    /\ IF ~test_res
       THEN /\ errors' = Append(errors, msg)
            /\ ret' = Ret(FALSE)
            /\ pc' = "done"
            /\ UNCHANGED <<res, requests>>
       ELSE /\ res' = TRUE
            /\ requests' = Append(requests, upload_request(start_print))
            /\ pc' = "post"
            /\ UNCHANGED <<errors, ret>>
    /\ UNCHANGED <<config, op, start_print, msg, msg_in, test_res, cancel_logs,
                   nprogress, cancelled, probe, post, escaped>>

\* the transport reports progress; cancel is the flag as prorgess_fn leaves it
UploadOnProgress(cancel) ==
    /\ ProgressPoint
    /\ LET out == upload_on_progress(res, errors, cancel_logs, cancel)
       IN  /\ res' = out.res
           /\ errors' = out.errors
           /\ cancel_logs' = out.logs
    /\ nprogress' = nprogress + 1
    /\ cancelled' = (cancelled \/ cancel)
    /\ UNCHANGED <<config, pc, op, start_print, msg, msg_in, test_res, requests,
                   probe, post, escaped, ret>>

\* the transport reports the POST completed: the closure only logs
UploadOnComplete(status) ==
    /\ PostInFlight
    /\ post' = Completed(<<>>, status)
    /\ pc' = "post_done"
    /\ UNCHANGED <<config, op, start_print, msg, msg_in, test_res, res, requests,
                   errors, cancel_logs, nprogress, cancelled, probe, escaped, ret>>

\* the transport reports the POST failed
UploadOnError(body, error, status) ==
    /\ PostInFlight
    /\ LET out == upload_on_error(res, errors, body, error, status)
       IN  /\ res' = out.res
           /\ errors' = out.errors
    /\ post' = Failed(body, error, status)
    /\ pc' = "post_done"
    /\ UNCHANGED <<config, op, start_print, msg, msg_in, test_res, requests,
                   cancel_logs, nprogress, cancelled, probe, escaped, ret>>

\* the cancelled transfer ends without a terminal callback
UploadAborted ==
    /\ AbortPoint
    /\ post' = Aborted
    /\ pc' = "post_done"
    /\ UNCHANGED <<config, op, start_print, msg, msg_in, test_res, res, requests,
                   errors, cancel_logs, nprogress, cancelled, probe, escaped, ret>>

\* upload() returns res to its caller
UploadReturn ==
    /\ pc = "post_done"
    /\ op = "upload"
    /\ ret' = Ret(res)
    /\ pc' = "done"
    /\ UNCHANGED <<config, op, start_print, msg, msg_in, test_res, res, requests,
                   errors, cancel_logs, nprogress, cancelled, probe, post, escaped>>

-----------------------------------------------------------------------------
(* Specification *)

Next ==
    \/ \E m \in Messages : TestCall(m)
    \/ \E e \in TransportErrors : TestOnError(e[1], e[2], e[3])
    \/ \E b \in Bodies : TestOnComplete(b)
    \/ TestReturn
    \/ \E sp \in BOOLEAN : UploadCall(sp)
    \/ UploadAfterProbe
    \/ \E c \in BOOLEAN : UploadOnProgress(c)
    \/ \E status \in {200, 201} : UploadOnComplete(status)
    \/ \E e \in TransportErrors : UploadOnError(e[1], e[2], e[3])
    \/ UploadAborted
    \/ UploadReturn

Spec == Init /\ [][Next]_vars

-----------------------------------------------------------------------------
(* Vocabulary of the properties *)

Returned == pc = "done"
Posts == {i \in DOMAIN requests : requests[i].method = "POST"}
Gets == {i \in DOMAIN requests : requests[i].method = "GET"}

\* the bodies of Bodies, classified by reading them
JsonBodies == {BodyRepetier, BodyOctoPrint, BodyShortName, BodyNoName,
               BodyNoVersion, BodyEmptyObject}
NonJsonBodies == {BodyHtml, BodyTruncated, BodyEmpty}
BodiesWithoutVersion == {BodyNoVersion, BodyEmptyObject}
AcceptedBodies == {BodyRepetier, BodyNoName}

\* the conditions a probe response must meet, taken one by one
ProbeAccepted ==
    /\ probe.kind = "complete"
    /\ read_json(probe.body).ok
    /\ get_optional(read_json(probe.body).tree, "version").has
    /\ LET name == get_optional(read_json(probe.body).tree, "name")
       IN  ~name.has \/ StartsWith(name.val, "Repetier-Server")

\* host with its scheme and without a trailing slash
Base(h) ==
    LET s == IF StartsWith(h, "http://") \/ StartsWith(h, "https://")
             THEN h ELSE "http://" \o h
    IN  IF BackIs(s, "/") THEN SubSeq(s, 1, Len(s) - 1) ELSE s

-----------------------------------------------------------------------------
(* C1 *)

\* C1: in an upload() call the GET of the probe is the first request, every
\* POST comes after a probe that returned success, and a failed probe ends
\* the call with onError invoked exactly once with the probe's message, the
\* result false and no POST.
C1_ProbeBeforePost ==
    op = "upload" =>
        /\ requests # <<>> /\ requests[1].method = "GET"
        /\ \A i \in Posts :
               i > 1 /\ probe.kind = "complete" /\ test_res /\ pc # "get"
        /\ (pc \in {"post", "post_done"} \/ (Returned /\ ~test_res)) => probe.kind # "none"
        /\ (Returned /\ ~test_res) =>
               /\ errors = <<msg>>
               /\ probe.kind = "error" =>
                      errors = <<format_error(probe.ebody, probe.error, probe.status)>>
               /\ ret = "false"
               /\ Posts = {}

\* an upload() whose probe met a transport error has returned
C1_Witness ==
    /\ op = "upload" /\ Returned /\ probe.kind = "error"
    /\ Len(errors) = 1 /\ ret = "false" /\ Posts = {}

-----------------------------------------------------------------------------
(* C2 *)

\* C2: upload() returns true exactly when the probe succeeded, the POST
\* completed without a transport error and no on_progress invocation left
\* the cancel flag set; otherwise it returns false.
C2_UploadResult ==
    (op = "upload" /\ Returned) =>
        /\ ret \in {"true", "false"}
        /\ ret = "true" <=>
               (/\ test_res /\ probe.kind = "complete"
                /\ post.kind \notin {"none", "error"}
                /\ ~cancelled)

\* a cancelled upload whose transfer completed all the same has returned false
C2_Witness ==
    /\ op = "upload" /\ Returned /\ cancelled /\ post.kind = "complete"
    /\ ret = "false"

-----------------------------------------------------------------------------
(* C3 *)

\* C3 as stated: once on_progress left the cancel flag set, onError is not
\* invoked at any point of the call, however the transport reacts.
C3_Original ==
    (op = "upload" /\ cancelled) =>
        /\ errors = <<>>
        /\ Returned => ret = "false"

\* C3 as amended: once on_progress left the cancel flag set, upload()
\* returns false and has logged the cancellation, however the transport
\* reacts; onError is invoked exactly when the transport reports an error
\* for the POST, once, with that error's message.
C3_CancelSilentUnlessTransportError ==
    (op = "upload" /\ cancelled) =>
        /\ ~res
        /\ Returned => ret = "false"
        /\ cancel_logs >= 1
        /\ errors = IF post.kind = "error"
                    THEN <<format_error(post.ebody, post.error, post.status)>>
                    ELSE <<>>

\* a cancelled upload the transport aborted without an error has returned
C3_Witness ==
    /\ op = "upload" /\ Returned /\ cancelled /\ post.kind = "aborted"
    /\ errors = <<>> /\ ret = "false" /\ cancel_logs >= 1

-----------------------------------------------------------------------------
(* C4 *)

\* C4: test() returns success exactly when the GET completed, the body
\* parses as JSON, the object has a "version" key and "name" is absent or
\* starts with "Repetier-Server".
C4_TestResult ==
    /\ probe.kind # "none" =>
           /\ test_res <=> ProbeAccepted
           /\ test_res <=> (probe.kind = "complete" /\ probe.body \in AcceptedBodies)
    /\ (op = "test" /\ Returned) => (probe.kind # "none" /\ ret = Ret(test_res))

\* test() has returned success on a response without "name"
C4_Witness ==
    /\ op = "test" /\ Returned /\ probe.kind = "complete" /\ probe.body = BodyNoName
    /\ ret = "true"

-----------------------------------------------------------------------------
(* C5 *)

\* C5 as stated: on valid JSON without "version" test() returns failure with
\* an empty message, whatever msg held when test() was called.
C5_Original ==
    (op = "test" /\ Returned /\ probe.kind = "complete"
       /\ probe.body \in BodiesWithoutVersion) =>
        /\ ret = "false"
        /\ msg = ""

\* C5 as amended: on valid JSON without "version" test() returns failure
\* and leaves msg as it was when test() was called; upload() calls test()
\* with an empty message, so its onError gets an empty message.
C5_MessageLeftAsPassed ==
    (probe.kind = "complete" /\ probe.body \in BodiesWithoutVersion) =>
        /\ ~test_res
        /\ msg = msg_in
        /\ (op = "test" /\ Returned) => ret = "false"
        /\ op = "upload" => msg = ""
        /\ (op = "upload" /\ Returned) => (errors = <<"">> /\ ret = "false")

\* test(msg) was called with a non-empty msg and has returned on a response
\* without "version"
C5_Witness ==
    /\ op = "test" /\ Returned /\ probe.kind = "complete"
    /\ probe.body = BodyNoVersion /\ msg_in = "stale" /\ msg = "stale"
    /\ ret = "false"

-----------------------------------------------------------------------------
(* C6 *)

\* C6: the POST goes to {base}/printer/job/{printerName} when startPrint is
\* true and to {base}/printer/model/{printerName} when it is false, with
\* exactly one '/' between the base and 'printer'.
C6_UploadUrl ==
    \A i \in Posts :
        /\ requests[i].url =
               Base(host) \o "/printer/" \o (IF start_print THEN "job" ELSE "model")
                          \o "/" \o printername
        /\ ~Contains(requests[i].url, "//printer")

-----------------------------------------------------------------------------
(* C7 *)

\* C7: make_url("printer/info") is host, one '/', and the path when host
\* starts with "http://" or "https://" (no '/' is added to a host that ends
\* with one), and "http://" + host + "/" + path otherwise.
C7_MakeUrl ==
    \A i \in Gets :
        LET url == requests[i].url
        IN  /\ IF StartsWith(host, "http://") \/ StartsWith(host, "https://")
               THEN /\ url = Base(host) \o "/printer/info"
                    /\ Len(url) = Len(host) + Len("printer/info")
                                  + (IF EndsWith(host, "/") THEN 0 ELSE 1)
               ELSE url = "http://" \o host \o "/" \o "printer/info"
            /\ host = "example.com" => url = "http://example.com/printer/info"
            /\ host = "http://example.com/" => url = "http://example.com/printer/info"
            /\ host = "https://example.com" => url = "https://example.com/printer/info"

\* the probe URL was built for a host that ends with a slash
C7_Witness ==
    /\ Gets # {} /\ host = "http://example.com/"
    /\ requests[1].url = "http://example.com/printer/info"

-----------------------------------------------------------------------------
(* C8 *)

\* C8: every request performed carries the header X-Api-Key with the value
\* apikey, also an empty one, and trusts cafile exactly when cafile is not
\* empty.
C8_AuthOnEveryRequest ==
    \A i \in DOMAIN requests :
        /\ {h \in requests[i].headers : h[1] = "X-Api-Key"} = {<<"X-Api-Key", apikey>>}
        /\ requests[i].ca_file = cafile
        /\ (requests[i].ca_file # "") <=> (cafile # "")

\* a GET and a POST were performed with an empty API key and no CA file
C8_Witness ==
    /\ Len(requests) = 2 /\ requests[2].method = "POST"
    /\ apikey = "" /\ cafile = ""

-----------------------------------------------------------------------------
(* C9 *)

\* C9: a completed GET whose body is not JSON makes test() fail with
\* "Could not parse server response", and no call ends with an exception:
\* a call that has returned has returned true or false.
C9_ParseFailureCaught ==
    /\ (probe.kind = "complete" /\ probe.body \in NonJsonBodies) =>
           /\ ~test_res
           /\ msg = "Could not parse server response"
           /\ (op = "test" /\ Returned) => ret = "false"
    /\ ~escaped
    /\ Returned => ret \in {"true", "false"}

\* test() has returned on a body that is not JSON
C9_Witness ==
    /\ op = "test" /\ Returned /\ probe.kind = "complete" /\ probe.body = BodyHtml
    /\ ret = "false" /\ msg = ParseFailMsg

-----------------------------------------------------------------------------
(* C10 *)

\* C10: in one upload() call onError is invoked at most once, a call that
\* invoked it returns false, and a probe failure and a transport error of
\* the POST are never both reported.
C10_OnErrorAtMostOnce ==
    op = "upload" =>
        /\ Len(errors) <= 1
        /\ (Returned /\ errors # <<>>) => ret = "false"
        /\ (Returned /\ ret = "true") => errors = <<>>
        /\ errors # <<>> =>
               \/ (~test_res /\ post.kind = "none")
               \/ (test_res /\ post.kind = "error")

\* an upload() whose POST met a transport error has returned
C10_Witness ==
    /\ op = "upload" /\ Returned /\ post.kind = "error"
    /\ Len(errors) = 1 /\ ret = "false"

====
